---- MODULE Spec2Model ----
(***************************************************************************)
(* Dino runner: obstacle generation, difficulty scaling and the per-frame  *)
(* loop of src/script.js (world-coordinate variant with shrinking gaps),   *)
(* and the first, screen-coordinate variant of src/unnamed/part_000.       *)
(*                                                                         *)
(* Units.  Lengths, positions, velocities and speeds are held in           *)
(* hundredths of a CSS pixel (gravity 0.68 is 68), so the JavaScript       *)
(* doubles the game uses are exact integers here.  A value returned by     *)
(* Math.random() is held in thousandths: 0 .. 999 stands for [0, 1).       *)
(***************************************************************************)
EXTENDS Integers, Sequences, FiniteSets, TLC

VARIABLES
    started,       \* script.js:379  startGame has run
    rafPending,    \* number of loop callbacks requestAnimationFrame holds
    running,       \* script.js:56
    isPaused,      \* script.js:57
    godMode,       \* script.js:58
    gameSpeed,     \* script.js:52   (hundredths of a px per frame)
    frame,         \* script.js:54
    score,         \* script.js:55
    dino,          \* script.js:89   [x, y, vy, grounded]
    obstacles,     \* script.js:149  sequence of [worldX, w, h, y]
    clientHeight,  \* canvas.clientHeight, read by CSS_H()
    added,         \* addObstacleAt calls accepted since the last populate
    lastOp,        \* the handler that produced this state
    fGameSpeed,    \* part_000:14   first variant: a JS number
    fSpawnInterval,\* part_000:15
    fFrame,        \* part_000:17
    fScore,        \* part_000:18   a JS number, in thousandths
    fRunning,      \* part_000:19
    fGodMode,      \* part_000:22
    fDino,         \* part_000:26   [y, vy, grounded]
    fObstacles,    \* part_000:80   sequence of [x, w, h, speed]
    fGameOver,     \* a collision ended the run and no reset followed
    fLastOp,       \* the handler that produced this state
    probe          \* a pure function under test: its arguments and its result

mainVars == <<started, rafPending, running, isPaused, godMode, gameSpeed, frame,
              score, dino, obstacles, clientHeight, added, lastOp>>
firstVars == <<fGameSpeed, fSpawnInterval, fFrame, fScore, fRunning, fGodMode,
               fDino, fObstacles, fGameOver, fLastOp>>
vars == <<mainVars, firstVars, probe>>

(***************************************************************************)
(* Arithmetic helpers                                                      *)
(***************************************************************************)
Centi(px) == px * 100
Max(a, b) == IF a >= b THEN a ELSE b
Min(a, b) == IF a <= b THEN a ELSE b
\* Math.floor of num/den for den > 0
Floor(num, den) == num \div den

(***************************************************************************)
(* Bounds of the model                                                     *)
(***************************************************************************)
MaxFrame == 2
FlightFrames == 50
MaxSpeedStep == 80
MaxAdded == 1
FirstMaxFrame == 2
FirstMaxObstacles == 1

(***************************************************************************)
(* Program constants of src/script.js (pixels, frames, counts)             *)
(***************************************************************************)
groundHeight == 40
baseSpeed == 4
gravity == 68
GAP_BASE == 500
GAP_REDUCTION_PER_SPEED == 45
GAP_RANDOM_JITTER == 160
GAP_MIN == 160
GAP_MAX == 2500
SPEED_LEVEL == 1
MAX_EXTRA_OBSTACLES == 8
BASE_OBSTACLE_BUFFER == 4
INITIAL_EXTRA_OBSTACLES == 6
DINO_W == 40
DINO_H == 40
DINO_START_X == 40
jumpForce == -15
START_OFFSET == 150
baseInitial == 10
FAR_COUNT == 6
RAMP_PERIOD == 800
RAMP_INCREMENT == 1
BURST_CAP == 4

\* canvas.clientHeight of the page the script runs in (CSS px)
InitClientHeight == 300

groundY(ch) == ch - Centi(groundHeight)

(***************************************************************************)
(* JavaScript values handed to the public setters, and Number(v)           *)
(***************************************************************************)
Num(n) == [t |-> "num", v |-> n]
NaN == [t |-> "nan", v |-> 0]
PosInf == [t |-> "inf", v |-> 1]
NegInf == [t |-> "inf", v |-> -1]
Str(n) == [t |-> "str", v |-> n]      \* a string that is the numeral n
Junk == [t |-> "junk", v |-> 0]       \* a string that is no numeral ("abc")

\* Number(v)
ToNumber(v) ==
    CASE v.t = "num" -> v
      [] v.t = "nan" -> NaN
      [] v.t = "inf" -> v
      [] v.t = "str" -> Num(v.v)
      [] OTHER -> NaN

\* isFinite(n), n a number
IsFinite(n) == n.t = "num"

(***************************************************************************)
(* Random draws.  One handler run takes its Math.random() values from one  *)
(* profile: the draw used for the gap jitter, the position jitter, the     *)
(* obstacle's width (selector and amount) and height, and the trickle      *)
(* bonus.                                                                  *)
(***************************************************************************)
Draw(g, p, ws, wa, hh, b) ==
    [gap |-> g, pos |-> p, wsel |-> ws, wamt |-> wa, h |-> hh, bonus |-> b]
DrawLow == Draw(0, 0, 0, 0, 0, 0)
DrawMid == Draw(500, 500, 500, 500, 500, 500)
DrawHigh == Draw(999, 999, 999, 999, 999, 999)
DrawProfiles == {DrawLow, DrawHigh}

(***************************************************************************)
(* DensityModel: script.js:74-86                                           *)
(***************************************************************************)
\* a gap that is not clamped
computeGapUnclamped(speed, r) ==
    LET reduction == Max(0, speed - Centi(baseSpeed)) * GAP_REDUCTION_PER_SPEED
        jitter == Floor((r - 500) * GAP_RANDOM_JITTER, 1000)
    IN  Centi(Floor(Centi(GAP_BASE) - reduction + Centi(jitter), 100))

computeGapForSpeed(speed, r) ==
    LET reduction == Max(0, speed - Centi(baseSpeed)) * GAP_REDUCTION_PER_SPEED
        jitter == Floor((r - 500) * GAP_RANDOM_JITTER, 1000)
        gap == Centi(GAP_BASE) - reduction + Centi(jitter)
    IN  Centi(Max(GAP_MIN, Min(GAP_MAX, Floor(gap, 100))))

\* an extra-obstacle count without its cap
computeExtraUncapped(speed) ==
    Max(0, Floor(Max(0, speed - Centi(baseSpeed)), Centi(SPEED_LEVEL)))

computeExtraObstacles(speed) ==
    LET raw == Floor(Max(0, speed - Centi(baseSpeed)), Centi(SPEED_LEVEL))
    IN  Min(MAX_EXTRA_OBSTACLES, Max(0, raw))

(***************************************************************************)
(* Obstacle constructor: script.js:134-140                                 *)
(***************************************************************************)
NewObstacle(worldX, d, ch) ==
    LET w == IF d.wsel > 600 THEN 30 + Floor(d.wamt * 30, 1000)
                             ELSE 20 + Floor(d.wamt * 15, 1000)
        h == 20 + Floor(d.h * 30, 1000)
    IN  [worldX |-> worldX, w |-> Centi(w), h |-> Centi(h),
         y |-> groundY(ch) - Centi(h)]

\* a collision test that counts touching edges
collidesTouching(a, b) ==
    /\ a.x <= b.worldX + b.w
    /\ a.x + Centi(DINO_W) >= b.worldX
    /\ a.y <= b.y + b.h
    /\ a.y + Centi(DINO_H) >= b.y

\* collides(dino, o): script.js:167-172
collides(a, b) ==
    /\ a.x < b.worldX + b.w
    /\ a.x + Centi(DINO_W) > b.worldX
    /\ a.y < b.y + b.h
    /\ a.y + Centi(DINO_H) > b.y

(***************************************************************************)
(* The world the handlers act on, as one record                            *)
(***************************************************************************)
World ==
    [running |-> running, isPaused |-> isPaused, godMode |-> godMode,
     gameSpeed |-> gameSpeed, frame |-> frame, score |-> score, dino |-> dino,
     obstacles |-> obstacles, clientHeight |-> clientHeight, added |-> added]

SetWorld(s) ==
    /\ running' = s.running
    /\ isPaused' = s.isPaused
    /\ godMode' = s.godMode
    /\ gameSpeed' = s.gameSpeed
    /\ frame' = s.frame
    /\ score' = s.score
    /\ dino' = s.dino
    /\ obstacles' = s.obstacles
    /\ clientHeight' = s.clientHeight
    /\ added' = s.added

(***************************************************************************)
(* Obstacle generation: script.js:175-201                                  *)
(***************************************************************************)
\* generation that always places from the runner
generateNextFromRunner(s, d) ==
    LET gap == computeGapForSpeed(s.gameSpeed, d.gap)
        nextX == s.dino.x + Centi(START_OFFSET) + gap
                    + Centi(Floor(d.pos * 80, 1000) - 40)
    IN  [s EXCEPT !.obstacles =
            Append(@, NewObstacle(nextX, d, s.clientHeight))]

\* generation whose position jitter is +/- 200
generateNextWideJitter(s, d) ==
    LET last == IF Len(s.obstacles) > 0
                THEN s.obstacles[Len(s.obstacles)].worldX
                ELSE s.dino.x + Centi(START_OFFSET)
        gap == computeGapForSpeed(s.gameSpeed, d.gap)
        nextX == last + gap + Centi(Floor(d.pos * 400, 1000) - 200)
    IN  [s EXCEPT !.obstacles =
            Append(@, NewObstacle(nextX, d, s.clientHeight))]

generateNextObstacle(s, d) ==
    LET last == IF Len(s.obstacles) > 0
                THEN s.obstacles[Len(s.obstacles)].worldX
                ELSE s.dino.x + Centi(START_OFFSET)
        gap == computeGapForSpeed(s.gameSpeed, d.gap)
        nextX == last + gap + Centi(Floor(d.pos * 80, 1000) - 40)
    IN  [s EXCEPT !.obstacles =
            Append(@, NewObstacle(nextX, d, s.clientHeight))]

RECURSIVE generateMany(_, _, _)
\* for (let i = 0; i < n; i++) generateNextObstacle();
generateMany(s, d, n) ==
    IF n <= 0 THEN s ELSE generateMany(generateNextObstacle(s, d), d, n - 1)

RECURSIVE populateRegular(_, _, _, _, _)
\* first loop of populateInitialObstacles; yields [cursor, obstacles]
populateRegular(s, d, cursor, acc, n) ==
    IF n <= 0 THEN [cursor |-> cursor, obstacles |-> acc]
    ELSE LET gap == computeGapForSpeed(s.gameSpeed, d.gap)
             c == cursor + gap + Centi(Floor(d.pos * 40, 1000) - 20)
         IN  populateRegular(s, d, c,
                 Append(acc, NewObstacle(c, d, s.clientHeight)), n - 1)

RECURSIVE populateFar(_, _, _, _, _)
\* second loop of populateInitialObstacles ("a few extra far ones")
populateFar(s, d, cursor, acc, n) ==
    IF n <= 0 THEN acc
    ELSE LET gap == computeGapForSpeed(s.gameSpeed, d.gap) + Centi(200)
                      + Centi(Floor(d.pos * 300, 1000))
             c == cursor + gap
         IN  populateFar(s, d, c,
                 Append(acc, NewObstacle(c, d, s.clientHeight)), n - 1)

\* an initial population of the far obstacles only
populateFarOnly(s, d) ==
    [s EXCEPT !.obstacles =
        populateFar(s, d, s.dino.x + Centi(START_OFFSET), <<>>, FAR_COUNT),
              !.added = 0]

populateInitialObstacles(s, d) ==
    LET initialCount == baseInitial + INITIAL_EXTRA_OBSTACLES
        reg == populateRegular(s, d, s.dino.x + Centi(START_OFFSET), <<>>,
                               initialCount)
    IN  [s EXCEPT !.obstacles =
            populateFar(s, d, reg.cursor, reg.obstacles, FAR_COUNT),
                  !.added = 0]

(***************************************************************************)
(* Runner: script.js:97-122                                                *)
(***************************************************************************)
\* a runner that gravity does not pull
dinoUpdateNoGravity(s) ==
    LET y1 == s.dino.y + s.dino.vy
        landed == y1 + Centi(DINO_H) >= groundY(s.clientHeight)
    IN  [s EXCEPT !.dino =
            [x |-> s.dino.x + s.gameSpeed,
             y |-> IF landed THEN groundY(s.clientHeight) - Centi(DINO_H) ELSE y1,
             vy |-> IF landed THEN 0 ELSE s.dino.vy,
             grounded |-> landed]]

dinoUpdate(s) ==
    LET vy1 == s.dino.vy + gravity
        y1 == s.dino.y + vy1
        landed == y1 + Centi(DINO_H) >= groundY(s.clientHeight)
        x1 == IF s.running /\ ~s.isPaused THEN s.dino.x + s.gameSpeed
                                          ELSE s.dino.x
    IN  [s EXCEPT !.dino =
            [x |-> x1,
             y |-> IF landed THEN groundY(s.clientHeight) - Centi(DINO_H) ELSE y1,
             vy |-> IF landed THEN 0 ELSE vy1,
             grounded |-> landed]]

\* a jump that does not ask whether the runner is grounded
dinoJumpAlways(s) ==
    [s EXCEPT !.dino.vy = Centi(jumpForce), !.dino.grounded = FALSE]

dinoJump(s) ==
    IF s.dino.grounded
    THEN [s EXCEPT !.dino.vy = Centi(jumpForce), !.dino.grounded = FALSE]
    ELSE s

dinoReset(s) ==
    [s EXCEPT !.dino = [x |-> Centi(DINO_START_X),
                        y |-> groundY(s.clientHeight) - Centi(DINO_H),
                        vy |-> 0, grounded |-> TRUE]]

\* a layout recalculation that gives every obstacle the smallest height
relayoutResized(obs, ch) ==
    [i \in 1..Len(obs) |->
        [obs[i] EXCEPT !.h = Centi(20), !.y = groundY(ch) - Centi(20)]]

\* recalcLayout: script.js:34-39
RECURSIVE relayout(_, _)
relayout(obs, ch) ==
    IF obs = <<>> THEN <<>>
    ELSE <<[Head(obs) EXCEPT !.y = groundY(ch) - Head(obs).h]>>
            \o relayout(Tail(obs), ch)

\* a layout recalculation that leaves the runner where it was
recalcLayoutKeepRunner(s) ==
    [s EXCEPT !.obstacles = relayout(@, s.clientHeight)]

recalcLayout(s) ==
    [s EXCEPT !.dino.y = Min(@, groundY(s.clientHeight) - Centi(DINO_H)),
              !.obstacles = relayout(@, s.clientHeight)]

(***************************************************************************)
(* Reset: script.js:204-218                                                *)
(***************************************************************************)
\* resetGame that forgets to put the speed back
resetGameKeepSpeed(s, d) ==
    LET s1 == [s EXCEPT !.frame = 0, !.score = 0, !.running = TRUE,
                        !.isPaused = FALSE, !.godMode = FALSE]
    IN  recalcLayout(populateInitialObstacles(dinoReset(s1), d))

\* resetGame that leaves the game stopped until a start signal
resetGameIdle(s, d) ==
    LET s1 == [s EXCEPT !.frame = 0, !.score = 0, !.running = FALSE,
                        !.isPaused = FALSE, !.godMode = FALSE,
                        !.gameSpeed = Centi(baseSpeed)]
    IN  recalcLayout(populateInitialObstacles(dinoReset(s1), d))

resetGame(s, d) ==
    LET s1 == [s EXCEPT !.frame = 0, !.score = 0, !.running = TRUE,
                        !.isPaused = FALSE, !.godMode = FALSE,
                        !.gameSpeed = Centi(baseSpeed)]
    IN  recalcLayout(populateInitialObstacles(dinoReset(s1), d))

(***************************************************************************)
(* Loop body: script.js:266-317                                            *)
(***************************************************************************)
aheadCount(s) ==
    Cardinality({i \in 1..Len(s.obstacles) : s.obstacles[i].worldX > s.dino.x})

desiredBuffer(speed) ==
    BASE_OBSTACLE_BUFFER + computeExtraObstacles(speed) + INITIAL_EXTRA_OBSTACLES

anyCollision(s) ==
    \E i \in 1..Len(s.obstacles) : collides(s.dino, s.obstacles[i])

\* a deficit fill that stops at the threshold itself
maintainBufferExact(s, d) ==
    LET desired == desiredBuffer(s.gameSpeed)
        ahead == aheadCount(s)
    IN  IF ahead < desired THEN generateMany(s, d, desired - ahead) ELSE s

\* a trickle that also runs after a deficit fill
maintainBufferBoth(s, d) ==
    LET desired == desiredBuffer(s.gameSpeed)
        s1 == generateMany(s, d, Max(0, (desired + 1) - aheadCount(s)))
        farthest == IF Len(s1.obstacles) > 0
                    THEN s1.obstacles[Len(s1.obstacles)].worldX
                    ELSE s1.dino.x
        gap == computeGapForSpeed(s.gameSpeed, d.gap)
    IN  IF farthest * 10 < s.dino.x * 10 + gap * Max(10, desired * 9)
        THEN generateMany(s1, d, 1)
        ELSE s1

\* script.js:271-293
maintainBuffer(s, d) ==
    LET extra == computeExtraObstacles(s.gameSpeed)
        desired == desiredBuffer(s.gameSpeed)
        ahead == aheadCount(s)
    IN  IF ahead < desired + 1
        THEN generateMany(s, d, (desired + 1) - ahead)
        ELSE LET farthest == IF Len(s.obstacles) > 0
                             THEN s.obstacles[Len(s.obstacles)].worldX
                             ELSE s.dino.x
                 gap == computeGapForSpeed(s.gameSpeed, d.gap)
                 \* threshold = dino.x + gap * max(1, desired * 0.9), times 10
                 threshold10 == s.dino.x * 10 + gap * Max(10, desired * 9)
             IN  IF farthest * 10 < threshold10
                 THEN LET bonusProb == Min(850, extra * 150 + 150)
                          bonus == IF d.bonus < bonusProb THEN 1 ELSE 0
                      IN  generateMany(s, d, 1 + bonus)
                 ELSE s

\* a score that counts 0.2 per pixel
updateScoreFifth(s) ==
    [s EXCEPT !.score =
        Max(@, Floor((s.dino.x - Centi(DINO_START_X)) * 2, 1000))]

\* script.js:295-296
updateScore(s) ==
    [s EXCEPT !.score =
        Max(@, Floor((s.dino.x - Centi(DINO_START_X)) * 3, 1000))]

\* a ramp that slows the run down
difficultyRampDown(s, d) ==
    IF s.frame % RAMP_PERIOD = 0
    THEN generateMany([s EXCEPT !.gameSpeed = @ - Centi(RAMP_INCREMENT)], d, 1)
    ELSE s

\* a ramp that raises the speed and spawns no burst
difficultyRampNoBurst(s, d) ==
    IF s.frame % RAMP_PERIOD = 0
    THEN [s EXCEPT !.gameSpeed = @ + Centi(RAMP_INCREMENT)]
    ELSE s

\* script.js:298-305
difficultyRamp(s, d) ==
    IF s.frame % RAMP_PERIOD = 0
    THEN LET oldSpeed == s.gameSpeed
             s1 == [s EXCEPT !.gameSpeed = @ + Centi(RAMP_INCREMENT)]
             extraOnLevel == Min(BURST_CAP,
                 computeExtraObstacles(s1.gameSpeed)
                   - computeExtraObstacles(oldSpeed) + 1)
         IN  generateMany(s1, d, extraOnLevel)
    ELSE s

\* collision test that looks at the newest obstacle only
collisionCheckLastOnly(s) ==
    IF ~s.godMode /\ Len(s.obstacles) > 0
                  /\ collides(s.dino, s.obstacles[Len(s.obstacles)])
    THEN [s EXCEPT !.running = FALSE] ELSE s

\* collision test that ignores god mode
collisionCheckNoGod(s) ==
    IF anyCollision(s) THEN [s EXCEPT !.running = FALSE] ELSE s

\* a collision test that then drops the obstacles the runner has left behind
collisionCheckCulling(s) ==
    LET behind(o) == o.worldX + o.w < s.dino.x
        s1 == IF ~s.godMode /\ anyCollision(s) THEN [s EXCEPT !.running = FALSE]
                                               ELSE s
    IN  [s1 EXCEPT !.obstacles = SelectSeq(@, LAMBDA o : ~behind(o))]

\* script.js:307-316
collisionCheck(s) ==
    IF ~s.godMode /\ anyCollision(s) THEN [s EXCEPT !.running = FALSE] ELSE s

\* loop body that does not look at the pause flag
loopBodyNoPause(s, d) ==
    IF s.running
    THEN LET s1 == dinoUpdate([s EXCEPT !.frame = @ + 1])
         IN  collisionCheck(difficultyRamp(updateScore(maintainBuffer(s1, d)), d))
    ELSE s

\* the steps of one frame in the order of the code; each step's result is
\* bound to its value before the next step reads it
loopBody(s, d) ==
    IF ~s.isPaused /\ s.running
    THEN CHOOSE s5 \in {collisionCheck(s4) :
            s4 \in {difficultyRamp(s3, d) :
            s3 \in {updateScore(s2) :
            s2 \in {maintainBuffer(s1, d) :
            s1 \in {dinoUpdate([s EXCEPT !.frame = @ + 1])}}}}} : TRUE
    ELSE s

(***************************************************************************)
(* Inputs the model draws from                                             *)
(***************************************************************************)
SpeedInputs ==
    {Num(0), Num(Centi(520)), Num(Centi(20000)), Num(-100), NaN, PosInf, Junk}
PositionInputs == {Num(Centi(50)), NaN, NegInf, Junk}

(***************************************************************************)
(* State after the script has been evaluated: script.js:51-58, 89-96, 149, *)
(* 379.  The loop is not scheduled before startGame.                       *)
(***************************************************************************)
MainInit ==
    /\ started = FALSE
    /\ rafPending = 0
    /\ running = TRUE
    /\ isPaused = FALSE
    /\ godMode = FALSE
    /\ gameSpeed = Centi(baseSpeed)
    /\ frame = 0
    /\ score = 0
    /\ dino = [x |-> Centi(DINO_START_X), y |-> 0, vy |-> 0, grounded |-> TRUE]
    /\ obstacles = <<>>
    /\ clientHeight = Centi(InitClientHeight)
    /\ added = 0
    /\ lastOp = "init"

(***************************************************************************)
(* Handlers of script.js.  lastOp records what produced the state: the     *)
(* start, a restart, a loop callback that ran its body ("tick") or skipped *)
(* it ("skip"), or an input that changed the world ("input"); an input     *)
(* that changes nothing leaves the state as it is.                         *)
(***************************************************************************)
Input(s) ==
    /\ SetWorld(s)
    /\ lastOp' = IF s = World THEN lastOp ELSE "input"
    /\ UNCHANGED <<started, rafPending>>
    /\ UNCHANGED <<firstVars, probe>>

\* a start that does not ask whether the game was started
StartGameAlways ==
    \E d \in DrawProfiles :
        /\ started' = TRUE
        /\ SetWorld(loopBody(resetGame(World, d), d))
        /\ rafPending' = rafPending + 1
        /\ lastOp' = "start"
        /\ UNCHANGED <<firstVars, probe>>

\* startGame: script.js:381-388 (the Start button); loop() runs once inline
StartGame ==
    IF ~started
    THEN \E d \in DrawProfiles :
            /\ MaxFrame >= 1
            /\ started' = TRUE
            /\ SetWorld(loopBody(resetGame(World, d), d))
            /\ rafPending' = rafPending + 1
            /\ lastOp' = "start"
            /\ UNCHANGED <<firstVars, probe>>
    ELSE UNCHANGED vars

\* loop, called back by requestAnimationFrame: script.js:266-322.  room bounds
\* the frames the model follows; profiles are the draws the frame may take.
TickIf(room, profiles) ==
    /\ rafPending > 0
    /\ IF ~isPaused /\ running
       THEN /\ room
            /\ \E d \in profiles : \E w \in {loopBody(World, d)} : SetWorld(w)
            /\ lastOp' = "tick"
       ELSE /\ SetWorld(loopBody(World, DrawLow))
            /\ lastOp' = "skip"
    /\ UNCHANGED <<started, rafPending>>
    /\ UNCHANGED <<firstVars, probe>>

Tick == TickIf(frame < MaxFrame, DrawProfiles)

\* keydown Space / ArrowUp: script.js:230-240
JumpKey == Input(dinoJump(World))

\* keydown g, DINO_CLONE.toggleGodMode: script.js:241-242, 394
ToggleGodMode == Input([World EXCEPT !.godMode = ~@])

\* DINO_CLONE.setGodMode: script.js:393
SetGodMode == \E v \in BOOLEAN : Input([World EXCEPT !.godMode = v])

\* keydown p: script.js:243-244
TogglePause == Input([World EXCEPT !.isPaused = ~@])

\* keydown r, the restart button, DINO_CLONE.restart: script.js:218, 245, 263
Restart ==
    \E d \in DrawProfiles :
        /\ SetWorld(resetGame(World, d))
        /\ lastOp' = "restart"
        /\ UNCHANGED <<started, rafPending>>
        /\ UNCHANGED <<firstVars, probe>>

\* pointerdown on the canvas: script.js:259-261
PointerDown ==
    IF ~running
    THEN \E d \in DrawProfiles :
            /\ SetWorld(resetGame(World, d))
            /\ lastOp' = "restart"
            /\ UNCHANGED <<started, rafPending>>
            /\ UNCHANGED <<firstVars, probe>>
    ELSE Input(dinoJump(World))

\* DINO_CLONE.setSpeed: script.js:395-401
setSpeed(s, v) ==
    LET n == ToNumber(v)
    IN  IF IsFinite(n) /\ n.v >= 0 THEN [s EXCEPT !.gameSpeed = n.v] ELSE s

SetSpeedOf(v) == Input(setSpeed(World, v))

SetSpeedFrom(inputs) == \E v \in inputs : SetSpeedOf(v)

SetSpeed == SetSpeedFrom(SpeedInputs)

\* DINO_CLONE.addObstacleAt: script.js:402-405
addObstacleAt(s, v, d) ==
    LET n == ToNumber(v)
    IN  IF IsFinite(n)
        THEN [s EXCEPT !.obstacles = Append(@, NewObstacle(n.v, d, s.clientHeight)),
                       !.added = @ + 1]
        ELSE s

\* profiles are the draws that size the obstacle
AddObstacleFrom(profiles) ==
    \E v \in PositionInputs, d \in profiles :
        /\ added < MaxAdded
        /\ Input(addObstacleAt(World, v, d))

AddObstacleAt == AddObstacleFrom(DrawProfiles)

MainNext ==
    \/ StartGame
    \/ Tick
    \/ JumpKey
    \/ ToggleGodMode
    \/ SetGodMode
    \/ TogglePause
    \/ Restart
    \/ PointerDown
    \/ SetSpeed

(***************************************************************************)
(* First variant (src/unnamed/part_000:1-236): screen coordinates, the     *)
(* obstacles move, one "running" flag serves both pause and game over.     *)
(* gameSpeed, the score and an obstacle's x and speed are JavaScript       *)
(* numbers: setSpeed stores Number(v) whatever it is.                      *)
(***************************************************************************)
\* canvas.width / canvas.height attributes of the page (px)
W == 800
H == 200
F_INIT_SPEED == 6
F_SPAWN_INTERVAL == 90
F_SPAWN_FLOOR == 20
F_GRAVITY == 80
F_JUMP_FORCE == -14
F_RAMP_PERIOD == 300
F_RAMP_SPEED == 60
F_RAMP_SPAWN == 4
F_SPAWN_MIN == 40

fGroundY == Centi(H) - Centi(40)

\* IEEE addition, negation and "<" on Num / NaN / PosInf / NegInf
XAdd(a, b) ==
    CASE a.t = "nan" \/ b.t = "nan" -> NaN
      [] a.t = "inf" /\ b.t = "inf" -> IF a.v = b.v THEN a ELSE NaN
      [] a.t = "inf" -> a
      [] b.t = "inf" -> b
      [] OTHER -> Num(a.v + b.v)

XNeg(a) == IF a.t = "nan" THEN NaN ELSE [a EXCEPT !.v = -@]

XLt(a, b) ==
    CASE a.t = "nan" \/ b.t = "nan" -> FALSE
      [] a.t = "inf" /\ b.t = "inf" -> a.v < b.v
      [] a.t = "inf" -> a.v < 0
      [] b.t = "inf" -> b.v > 0
      [] OTHER -> a.v < b.v

FirstWorld ==
    [gameSpeed |-> fGameSpeed, spawnInterval |-> fSpawnInterval,
     frame |-> fFrame, score |-> fScore, running |-> fRunning,
     godMode |-> fGodMode, dino |-> fDino, obstacles |-> fObstacles,
     gameOver |-> fGameOver]

SetFirstWorld(s) ==
    /\ fGameSpeed' = s.gameSpeed
    /\ fSpawnInterval' = s.spawnInterval
    /\ fFrame' = s.frame
    /\ fScore' = s.score
    /\ fRunning' = s.running
    /\ fGodMode' = s.godMode
    /\ fDino' = s.dino
    /\ fObstacles' = s.obstacles
    /\ fGameOver' = s.gameOver

\* new Obstacle(speed): part_000:60-67; r is the draw that sizes it
fNewObstacle(speed, r) ==
    LET w == IF r > 600 THEN 30 + Floor(r * 30, 1000)
                        ELSE 20 + Floor(r * 15, 1000)
        h == 20 + Floor(r * 30, 1000)
    IN  [x |-> Num(Centi(W) + Centi(20)), w |-> Centi(w), h |-> Centi(h),
         y |-> fGroundY - Centi(h), speed |-> speed]

\* collides(dino, o): part_000:99-104, dino.x = 40, dino.w = dino.h = 40
fCollides(a, b) ==
    /\ XLt(Num(Centi(40)), XAdd(b.x, Num(b.w)))
    /\ XLt(b.x, Num(Centi(40) + Centi(40)))
    /\ a.y < b.y + b.h
    /\ a.y + Centi(40) > b.y

\* resetGame: part_000:107-118
fResetGame(s) ==
    [s EXCEPT !.obstacles = <<>>, !.gameSpeed = Num(Centi(F_INIT_SPEED)),
              !.spawnInterval = F_SPAWN_INTERVAL, !.frame = 0,
              !.score = Num(0), !.running = TRUE,
              !.dino.y = fGroundY - Centi(40), !.dino.vy = 0,
              !.godMode = FALSE, !.gameOver = FALSE]

\* dino.update: part_000:41-51
fDinoUpdate(dn) ==
    LET vy1 == dn.vy + F_GRAVITY
        y1 == dn.y + vy1
        landed == y1 + Centi(40) >= fGroundY
    IN  [y |-> IF landed THEN fGroundY - Centi(40) ELSE y1,
         vy |-> IF landed THEN 0 ELSE vy1,
         grounded |-> landed]

\* dino.jump: part_000:52-57
fDinoJump(dn) ==
    IF dn.grounded
    THEN [dn EXCEPT !.vy = Centi(F_JUMP_FORCE), !.grounded = FALSE]
    ELSE dn

\* obstacles.forEach(o => o.update()) and the removal of those offscreen
RECURSIVE fMoveAndCull(_)
fMoveAndCull(obs) ==
    IF obs = <<>> THEN <<>>
    ELSE LET o == [Head(obs) EXCEPT !.x = XAdd(@, XNeg(Head(obs).speed))]
             rest == fMoveAndCull(Tail(obs))
         IN  IF XLt(XAdd(o.x, Num(o.w)), Num(0)) THEN rest ELSE <<o>> \o rest

\* loop: part_000:143-186; r is the draw of a spawn in this frame
fLoopBody(s, r) ==
    IF s.running
    THEN LET f1 == s.frame + 1
             spawn == f1 % Max(F_SPAWN_FLOOR, s.spawnInterval) = 0
             obs1 == IF spawn
                     THEN Append(s.obstacles,
                            fNewObstacle(XAdd(s.gameSpeed, Num(Floor(r * 2, 10))), r))
                     ELSE s.obstacles
             ramp == f1 % F_RAMP_PERIOD = 0
             speed1 == IF ramp THEN XAdd(s.gameSpeed, Num(F_RAMP_SPEED))
                               ELSE s.gameSpeed
             interval1 == IF ramp THEN Max(F_SPAWN_MIN, s.spawnInterval - F_RAMP_SPAWN)
                                  ELSE s.spawnInterval
             dino1 == fDinoUpdate(s.dino)
             obs2 == fMoveAndCull(obs1)
             \* score += 0.1 * gameSpeed, in thousandths
             score1 == XAdd(s.score, speed1)
             hit == ~s.godMode /\ \E i \in 1..Len(obs2) : fCollides(dino1, obs2[i])
         IN  [s EXCEPT !.frame = f1, !.obstacles = obs2, !.gameSpeed = speed1,
                       !.spawnInterval = interval1, !.dino = dino1,
                       !.score = score1,
                       !.running = IF hit THEN FALSE ELSE @,
                       !.gameOver = IF hit THEN TRUE ELSE @]
    ELSE s

\* the module-level initialisers, part_000:14-33, before resetGame() runs
FirstConstructed ==
    [gameSpeed |-> Num(Centi(F_INIT_SPEED)), spawnInterval |-> F_SPAWN_INTERVAL,
     frame |-> 0, score |-> Num(0), running |-> TRUE, godMode |-> FALSE,
     dino |-> [y |-> fGroundY - Centi(40), vy |-> 0, grounded |-> TRUE],
     obstacles |-> <<>>, gameOver |-> FALSE]

FirstDraws == {0, 995}
FirstSpeedInputs == {Num(Centi(W - 50)), Num(-500), NaN, PosInf}

\* "Start": resetGame(); loop();  part_000:223-224
FirstStarted == fLoopBody(fResetGame(FirstConstructed), 0)

FirstInit ==
    /\ fGameSpeed = FirstStarted.gameSpeed
    /\ fSpawnInterval = FirstStarted.spawnInterval
    /\ fFrame = FirstStarted.frame
    /\ fScore = FirstStarted.score
    /\ fRunning = FirstStarted.running
    /\ fGodMode = FirstStarted.godMode
    /\ fDino = FirstStarted.dino
    /\ fObstacles = FirstStarted.obstacles
    /\ fGameOver = FirstStarted.gameOver
    /\ fLastOp = "start"

FirstInput(s) ==
    /\ SetFirstWorld(s)
    /\ fLastOp' = IF s = FirstWorld THEN fLastOp ELSE "input"
    /\ UNCHANGED <<mainVars, probe>>

\* loop, called back by requestAnimationFrame
FirstTick ==
    IF fRunning
    THEN /\ fFrame < FirstMaxFrame
         /\ \E r \in FirstDraws : SetFirstWorld(fLoopBody(FirstWorld, r))
         /\ fLastOp' = "tick"
         /\ UNCHANGED <<mainVars, probe>>
    ELSE /\ SetFirstWorld(fLoopBody(FirstWorld, 0))
         /\ fLastOp' = "skip"
         /\ UNCHANGED <<mainVars, probe>>

\* keydown: part_000:128-138
FirstJumpKey == FirstInput([FirstWorld EXCEPT !.dino = fDinoJump(@)])
FirstToggleGod == FirstInput([FirstWorld EXCEPT !.godMode = ~@])
FirstPauseKey == FirstInput([FirstWorld EXCEPT !.running = ~@])

\* the restart button: part_000:140
FirstRestart ==
    /\ SetFirstWorld(fResetGame(FirstWorld))
    /\ fLastOp' = "restart"
    /\ UNCHANGED <<mainVars, probe>>

\* DINO_CLONE.setSpeed: part_000:230
fSetSpeed(s, v) == [s EXCEPT !.gameSpeed = ToNumber(v)]

FirstSetSpeedOf(v) == FirstInput(fSetSpeed(FirstWorld, v))

FirstSetSpeed == \E v \in FirstSpeedInputs : FirstSetSpeedOf(v)

\* DINO_CLONE.addObstacle: part_000:232
FirstAddObstacle ==
    \E r \in FirstDraws :
        /\ Len(fObstacles) < FirstMaxObstacles
        /\ FirstInput([FirstWorld EXCEPT !.obstacles =
                          Append(@, fNewObstacle(FirstWorld.gameSpeed, r))])

FirstNext ==
    \/ FirstTick
    \/ FirstJumpKey
    \/ FirstToggleGod
    \/ FirstPauseKey
    \/ FirstRestart
    \/ FirstSetSpeed
    \/ FirstAddObstacle

FirstIdle ==
    /\ fGameSpeed = Num(0)
    /\ fSpawnInterval = 0
    /\ fFrame = 0
    /\ fScore = Num(0)
    /\ fRunning = FALSE
    /\ fGodMode = FALSE
    /\ fDino = [y |-> 0, vy |-> 0, grounded |-> TRUE]
    /\ fObstacles = <<>>
    /\ fGameOver = FALSE
    /\ fLastOp = "none"

\* no pure function is under test
ProbeIdle == probe = [fn |-> "none"]

Init == MainInit /\ FirstIdle /\ ProbeIdle
Next == MainNext
Spec == Init /\ [][Next]_vars

\* the first variant on its own; the script.js state stays as constructed
InitFirst == MainInit /\ FirstInit /\ ProbeIdle
NextFirst == FirstNext
SpecFirst == InitFirst /\ [][NextFirst]_vars

(***************************************************************************)
(* The frames around a difficulty ramp.  The run is started, setSpeed(0)   *)
(* parks the runner, and the loop is called back until the frame counter   *)
(* is one short of RAMP_PERIOD; from there the handlers act as usual.      *)
(***************************************************************************)
RECURSIVE ticks(_, _, _)
\* n consecutive loop callbacks, all drawing d
ticks(s, d, n) ==
    IF n = 0 THEN s
    ELSE IF n = 1 THEN loopBody(s, d)
    ELSE LET half == ticks(s, d, n \div 2)
         IN  IF half.frame >= s.frame THEN ticks(half, d, n - (n \div 2))
                                      ELSE half

\* the world of script.js as constructed (MainInit), as one record
Constructed ==
    [running |-> TRUE, isPaused |-> FALSE, godMode |-> FALSE,
     gameSpeed |-> Centi(baseSpeed), frame |-> 0, score |-> 0,
     dino |-> [x |-> Centi(DINO_START_X), y |-> 0, vy |-> 0, grounded |-> TRUE],
     obstacles |-> <<>>, clientHeight |-> Centi(InitClientHeight), added |-> 0]

\* startGame(), then DINO_CLONE.setSpeed(0), then RAMP_PERIOD - 2 callbacks
BeforeRamp(d) ==
    ticks(setSpeed(loopBody(resetGame(Constructed, d), d), Num(0)), d,
          RAMP_PERIOD - 2)

\* the world is s
WorldIs(s) ==
    /\ running = s.running
    /\ isPaused = s.isPaused
    /\ godMode = s.godMode
    /\ gameSpeed = s.gameSpeed
    /\ frame = s.frame
    /\ score = s.score
    /\ dino = s.dino
    /\ obstacles = s.obstacles
    /\ clientHeight = s.clientHeight
    /\ added = s.added

RampInit ==
    /\ \E d \in DrawProfiles : WorldIs(BeforeRamp(d))
    /\ started = TRUE
    /\ rafPending = 1
    /\ lastOp = "tick"

RampSpeedInputs == {Num(0), Num(Centi(baseSpeed)), Num(Centi(12)), Num(-100), NaN}

RampTick == TickIf(frame < RAMP_PERIOD + MaxFrame, DrawProfiles)
RampSetSpeed == SetSpeedFrom(RampSpeedInputs)

InitRamp == RampInit /\ FirstIdle /\ ProbeIdle
NextRamp ==
    \/ RampTick
    \/ RampSetSpeed
    \/ JumpKey
    \/ TogglePause
    \/ ToggleGodMode
SpecRamp == InitRamp /\ [][NextRamp]_vars

(***************************************************************************)
(* A jump followed to its landing.  The run is started, jump requests come *)
(* in the first MaxFrame frames or in flight, and the loop is called back  *)
(* for FlightFrames more frames.  requestAnimationFrame re-arms the loop   *)
(* at the end of every callback (script.js:321), hence the fairness.       *)
(***************************************************************************)
StartedInit ==
    /\ \E d \in DrawProfiles : WorldIs(loopBody(resetGame(Constructed, d), d))
    /\ started = TRUE
    /\ rafPending = 1
    /\ lastOp = "start"

JumpTick == TickIf(frame < MaxFrame + FlightFrames, DrawProfiles)
FlightJumpKey == (frame <= MaxFrame \/ ~dino.grounded) /\ JumpKey

InitJump == StartedInit /\ FirstIdle /\ ProbeIdle
NextJump ==
    \/ JumpTick
    \/ FlightJumpKey
SpecJump == InitJump /\ [][NextJump]_vars /\ WF_vars(JumpTick)

(***************************************************************************)
(* DensityModel of the variant with high-speed easing:                     *)
(* src/unnamed/part_000:287-342.  Gaps grow with the speed.                *)
(***************************************************************************)
E_baseSpeed == 3
E_GAP_BASE == 600
E_GAP_PER_SPEED == 150
E_GAP_RANDOM_JITTER == 200
E_GAP_MIN == 300
E_GAP_MAX == 3000
HIGH_SPEED_THRESHOLD == 12
\* 0.20, in hundredths
HIGH_SPEED_GAP_MULTIPLIER == 20
HIGH_SPEED_REDUCTION_RATE == 2
E_SPEED_LEVEL == 1
E_MAX_EXTRA_OBSTACLES == 6

\* (over / HIGH_SPEED_THRESHOLD) * HIGH_SPEED_GAP_MULTIPLIER is over / easeDen
\* for over in hundredths
easeDen == (Centi(HIGH_SPEED_THRESHOLD) * 100) \div HIGH_SPEED_GAP_MULTIPLIER

\* part_000:315-330.  The gap before easing is a multiple of half a pixel,
\* so the product gap * mult is formed on gap / 0.5 px.
eComputeGapForSpeed(speed, r) ==
    LET extra == Max(0, speed - Centi(E_baseSpeed)) * E_GAP_PER_SPEED
        jitter == Floor(r * E_GAP_RANDOM_JITTER, 1000)
        gap0 == Centi(E_GAP_BASE) + extra + Centi(jitter)
        over == speed - Centi(HIGH_SPEED_THRESHOLD)
        gap == IF speed > Centi(HIGH_SPEED_THRESHOLD)
               THEN Centi(Floor((gap0 \div 50) * (easeDen + Min(easeDen, over)),
                                2 * easeDen))
               ELSE gap0
    IN  Max(Centi(E_GAP_MIN), Min(Centi(E_GAP_MAX), gap))

\* part_000:332-342
eComputeExtraObstacles(speed) ==
    LET raw == Floor(Max(0, speed - Centi(E_baseSpeed)), Centi(E_SPEED_LEVEL))
    IN  IF speed > Centi(HIGH_SPEED_THRESHOLD)
        THEN LET overUnits == speed - Centi(HIGH_SPEED_THRESHOLD)
                 reduceBy == Floor(overUnits, Centi(HIGH_SPEED_REDUCTION_RATE))
                 adjusted == Max(0, raw - reduceBy)
             IN  Min(E_MAX_EXTRA_OBSTACLES, adjusted)
        ELSE Min(E_MAX_EXTRA_OBSTACLES, raw)

\* nextX - last of generateNextObstacle, part_000:440-441
eNextStep(speed, d) ==
    eComputeGapForSpeed(speed, d.gap) + Centi(Floor(d.pos * 80, 1000) - 40)

\* the cursor's step in the first loop of populateInitialObstacles,
\* part_000:451-452
ePopulateStep(speed, d) ==
    eComputeGapForSpeed(speed, d.gap) + Centi(Floor(d.pos * 40, 1000) - 20)

\* the cursor's step in its second loop, part_000:457-458
ePopulateFarStep(speed, d) ==
    eComputeGapForSpeed(speed, d.gap) + Centi(200)
        + Centi(Floor(d.pos * 300, 1000))

(***************************************************************************)
(* The pure functions on their own: the arguments are drawn at the start,  *)
(* an action applies the function and keeps the result.                    *)
(***************************************************************************)
ProbeOf(fn, a, b, r) ==
    [fn |-> fn, a |-> a, b |-> b, r |-> r, done |-> FALSE, out |-> 0, out2 |-> 0]

\* speeds from 0 in steps of a quarter pixel per frame, and some far ones
ProbeSpeeds == {25 * k : k \in 0..MaxSpeedStep} \cup {Centi(50), Centi(500)}
ProbeDraws == {0, 1, 499, 500, 999}

GapProbes == {ProbeOf("gap", s, 0, r) : s \in ProbeSpeeds, r \in ProbeDraws}

\* two speeds each
ExtraProbes == {ProbeOf("extra", s1, s2, 0) : s1 \in ProbeSpeeds, s2 \in ProbeSpeeds}

\* a runner box (40 x 40) and an obstacle box, px: overlapping, apart, and
\* touching along each edge
RunnerBoxes == {[x |-> Centi(DINO_START_X), y |-> Centi(y)] : y \in {60, 100}}
ObstacleBoxes ==
    {[worldX |-> Centi(x), y |-> Centi(y), w |-> Centi(w), h |-> Centi(h)] :
        x \in {0, 10, 19, 20, 21, 50, 79, 80, 81, 100},
        y \in {60, 79, 80, 81, 110, 139, 140, 141},
        w \in {20, 59}, h \in {20, 49}}
CollidesProbes ==
    {ProbeOf("collides", a, b, 0) : a \in RunnerBoxes, b \in ObstacleBoxes}

\* generateNextObstacle twice: the sequence it starts from (empty, or one
\* obstacle at x = 0), the speed, and the value of every draw
StartSequences ==
    {<<>>, <<[worldX |-> 0, w |-> Centi(20), h |-> Centi(20),
              y |-> groundY(Centi(InitClientHeight)) - Centi(20)]>>}
GenerateSpeeds == {Centi(baseSpeed), Centi(baseSpeed) + 50, Centi(12)}
GenerateProbes ==
    {ProbeOf("generate", a, s, r) :
        a \in StartSequences, s \in GenerateSpeeds, r \in ProbeDraws}

\* obstacle placement: the speed, the draw of the gap jitter and the draw of
\* the position jitter
PlaceProbes ==
    {ProbeOf("place", s, g, p) : s \in ProbeSpeeds, g \in ProbeDraws, p \in ProbeDraws}

\* the arguments of one call are drawn
ProbeDrawn ==
    \/ probe \in GapProbes
    \/ probe \in ExtraProbes
    \/ probe \in CollidesProbes
    \/ probe \in GenerateProbes
    \/ probe \in PlaceProbes

Applied(o1, o2) ==
    /\ ~probe.done
    /\ probe' = [probe EXCEPT !.done = TRUE, !.out = o1, !.out2 = o2]
    /\ UNCHANGED <<mainVars, firstVars>>

\* computeGapForSpeed(speed) of both variants
ApplyGap ==
    /\ probe.fn = "gap"
    /\ Applied(computeGapForSpeed(probe.a, probe.r),
               eComputeGapForSpeed(probe.a, probe.r))

\* computeExtraObstacles(speed) of both variants, on the two speeds
ApplyExtra ==
    /\ probe.fn = "extra"
    /\ Applied(<<computeExtraObstacles(probe.a), computeExtraObstacles(probe.b)>>,
               <<eComputeExtraObstacles(probe.a), eComputeExtraObstacles(probe.b)>>)

\* collides(dino, o)
ApplyCollides ==
    /\ probe.fn = "collides"
    /\ Applied(collides(probe.a, probe.b), 0)

\* two consecutive generateNextObstacle() calls; the result is the distance
\* of the two obstacles, and the distance of the first from where it was
\* placed from
ApplyGenerate ==
    /\ probe.fn = "generate"
    /\ LET r == probe.r
           s0 == [Constructed EXCEPT !.gameSpeed = probe.b, !.obstacles = probe.a]
           s2 == generateMany(s0, Draw(r, r, r, r, r, r), 2)
           n == Len(probe.a)
           from == IF n > 0 THEN probe.a[n].worldX
                            ELSE s0.dino.x + Centi(START_OFFSET)
       IN  Applied(s2.obstacles[n + 2].worldX - s2.obstacles[n + 1].worldX,
                   s2.obstacles[n + 1].worldX - from)

\* the steps between the position an obstacle is placed from and the
\* obstacle, in the order of placement
Steps(from, obs) ==
    [i \in 1..Len(obs) |->
        obs[i].worldX - (IF i = 1 THEN from ELSE obs[i - 1].worldX)]

\* generateNextObstacle() on the empty sequence and on the sequence it left,
\* and populateInitialObstacles(); the results are the steps of script.js and
\* those of the variant with easing
ApplyPlace ==
    /\ probe.fn = "place"
    /\ LET d == Draw(probe.b, probe.r, 0, 0, 0, 0)
           s0 == [Constructed EXCEPT !.gameSpeed = probe.a]
           from == s0.dino.x + Centi(START_OFFSET)
       IN  Applied([generate |-> Steps(from, generateMany(s0, d, 2).obstacles),
                    populate |-> Steps(from, populateInitialObstacles(s0, d).obstacles)],
                   [generate |-> <<eNextStep(probe.a, d), eNextStep(probe.a, d)>>,
                    populate |-> <<ePopulateStep(probe.a, d),
                                   ePopulateFarStep(probe.a, d)>>])

InitPure == MainInit /\ FirstIdle /\ ProbeDrawn
NextPure ==
    \/ ApplyGap
    \/ ApplyExtra
    \/ ApplyCollides
    \/ ApplyGenerate
    \/ ApplyPlace
SpecPure == InitPure /\ [][NextPure]_vars

(***************************************************************************)
(* Buffer maintenance.  The run is started and setSpeed carries the runner *)
(* into and past the initial obstacles, so that ticks meet every case of   *)
(* script.js:278-293: a deficit, a full buffer whose farthest obstacle is  *)
(* near, and a full buffer that reaches far enough.                        *)
(***************************************************************************)
BufferSpeedInputs ==
    {Num(0), Num(Centi(5)), Num(Centi(2000)), Num(Centi(2400)), Num(Centi(10200))}

BufferTick == TickIf(frame < MaxFrame + 1, DrawProfiles)
BufferSetSpeed == SetSpeedFrom(BufferSpeedInputs)

InitBuffer == StartedInit /\ FirstIdle /\ ProbeIdle
NextBuffer ==
    \/ BufferTick
    \/ BufferSetSpeed
    \/ ToggleGodMode
SpecBuffer == InitBuffer /\ [][NextBuffer]_vars

(***************************************************************************)
(* A run that reaches its difficulty ramps at the speed the game sets.     *)
(* The run is started, keydown g makes the runner invincible, and the loop *)
(* is called back until the frame counter is two short of a multiple of    *)
(* RAMP_PERIOD; from there the handlers act, setSpeed left out.  The       *)
(* frames followed are those around a ramp and the first ones of a run.    *)
(***************************************************************************)
MaxLevel == 1

\* startGame(), keydown g, then n - 1 callbacks: n frames of the run
RunTo(d, n) ==
    ticks([loopBody(resetGame(Constructed, d), d) EXCEPT !.godMode = TRUE], d,
          n - 1)

LevelInit ==
    /\ \E d \in DrawProfiles, k \in 1..MaxLevel :
            WorldIs(RunTo(d, k * RAMP_PERIOD - 2))
    /\ started = TRUE
    /\ rafPending = 1
    /\ lastOp = "tick"

NearRamp(f) ==
    f % RAMP_PERIOD < MaxFrame \/ f % RAMP_PERIOD >= RAMP_PERIOD - 2

LevelTick == TickIf(NearRamp(frame), DrawProfiles)

InitLevel == LevelInit /\ FirstIdle /\ ProbeIdle
NextLevel ==
    \/ LevelTick
    \/ JumpKey
    \/ TogglePause
    \/ ToggleGodMode
    \/ Restart
SpecLevel == InitLevel /\ [][NextLevel]_vars

(***************************************************************************)
(* The public API: spawn calls at a given position and setSpeed, with the  *)
(* start, restarts and the loop.                                           *)
(***************************************************************************)
ApiSpeedInputs == {Num(0), Num(Centi(2000)), Num(-100), NaN}

ApiSetSpeed == SetSpeedFrom(ApiSpeedInputs)

InitApi == MainInit /\ FirstIdle /\ ProbeIdle
NextApi ==
    \/ StartGame
    \/ Tick
    \/ Restart
    \/ ApiSetSpeed
    \/ AddObstacleAt
SpecApi == InitApi /\ [][NextApi]_vars

(***************************************************************************)
(* The window around a started run: viewport resizes, the keys, the public *)
(* API and the loop; no restart.                                           *)
(***************************************************************************)
\* canvas.clientHeight after a resize of the window (CSS px)
HeightInputs == {Centi(200), Centi(InitClientHeight)}

\* the window's resize listener: script.js:22-25
Resize ==
    \E h \in HeightInputs : Input(recalcLayout([World EXCEPT !.clientHeight = h]))

LayoutSpeedInputs == {Num(Centi(2000)), NaN}

LayoutSetSpeed == SetSpeedFrom(LayoutSpeedInputs)

LayoutAddObstacleAt == AddObstacleFrom({DrawHigh})

InitLayout == StartedInit /\ FirstIdle /\ ProbeIdle
NextLayout ==
    \/ Tick
    \/ LayoutSetSpeed
    \/ LayoutAddObstacleAt
    \/ Resize
    \/ JumpKey
    \/ TogglePause
    \/ ToggleGodMode
SpecLayout == InitLayout /\ [][NextLayout]_vars

(***************************************************************************)
(* Claims                                                                  *)
(***************************************************************************)
\* the loop body has just run: by a callback, or inline in startGame
AfterTick == lastOp \in {"tick", "start"}

\* a loop callback takes this step
TickStep == lastOp' \in {"tick", "skip"}

InitialDino ==
    [x |-> Centi(DINO_START_X), y |-> groundY(clientHeight) - Centi(DINO_H),
     vy |-> 0, grounded |-> TRUE]

\* C1: after every tick executed while Running and unpaused, the number of
\* obstacles with worldX > runner.x is at least BASE_OBSTACLE_BUFFER +
\* computeExtraObstacles(speed at the end of the tick) + INITIAL_EXTRA_OBSTACLES.
C1_BufferInvariant ==
    AfterTick => aheadCount(World) >= desiredBuffer(gameSpeed)

\* C2: every adjacent pair of the generated obstacle sequence is at least
\* GAP_MIN apart.
C2_AdjacentGapAtLeastMin ==
    \A i \in 1..(Len(obstacles) - 1) :
        obstacles[i + 1].worldX - obstacles[i].worldX >= Centi(GAP_MIN)

\* C3: a tick executed while not invincible that ends with the runner
\* overlapping a live obstacle leaves the game Finished (running = false).
C3_CollisionEndsRun ==
    (AfterTick /\ ~godMode /\ anyCollision(World)) => ~running

C3_Witness ==
    lastOp = "tick" /\ ~godMode /\ anyCollision(World) /\ ~running

\* C4: while the invincible flag stays true no step takes the game from
\* Running to Finished.
C4_InvincibleNeverFinishes ==
    [][(godMode /\ godMode' /\ running) => running']_vars

C4_Witness ==
    lastOp = "tick" /\ godMode /\ running /\ anyCollision(World)

\* C5: a restart leaves score = 0, speed = baseSpeed, the runner at its
\* initial position, and at least BASE_OBSTACLE_BUFFER +
\* computeExtraObstacles(baseSpeed) + INITIAL_EXTRA_OBSTACLES obstacles ahead.
C5_RestartResets ==
    lastOp = "restart" =>
        /\ score = 0
        /\ gameSpeed = Centi(baseSpeed)
        /\ dino = InitialDino
        /\ aheadCount(World) >= desiredBuffer(Centi(baseSpeed))

C5_Witness ==
    /\ lastOp = "restart"
    /\ started
    /\ aheadCount(World) = baseInitial + INITIAL_EXTRA_OBSTACLES + FAR_COUNT

\* C6: once a collision has put the game in Finished, it is not Running
\* again before a restart (first variant: fGameOver is cleared by resetGame).
C6_FinishedStaysFinished_First == fGameOver => ~fRunning

\* C7: in Finished, a step that is no restart leaves the runner and the
\* obstacle sequence as they are.
C7_FinishedFreezes ==
    [][(~running /\ ~running') => (dino' = dino /\ obstacles' = obstacles)]_vars

\* C8: a tick taken while the paused flag is set changes nothing of the world.
C8_PausedTickChangesNothing ==
    [][(isPaused /\ TickStep) =>
        /\ frame' = frame
        /\ dino' = dino
        /\ obstacles' = obstacles
        /\ score' = score
        /\ gameSpeed' = gameSpeed
        /\ running' = running]_vars

C8_Witness ==
    lastOp = "skip" /\ isPaused /\ running /\ ~godMode /\ anyCollision(World)

\* C9 as stated: after a restart, a tick does not advance physics, spawning
\* or score (the game waits in Idle for a start signal).
C9_RestartIdles ==
    [][(lastOp = "restart" /\ TickStep) =>
        (frame' = frame /\ dino' = dino /\ score' = score
            /\ obstacles' = obstacles)]_vars

\* C9 amended: a restart leaves the game Running and unpaused, and the tick
\* that follows it runs the loop body: the frame counter and the runner advance.
C9_RestartKeepsRunning ==
    [][/\ (lastOp' = "restart" => running' /\ ~isPaused' /\ frame' = 0)
       /\ (lastOp = "restart" /\ TickStep) =>
            (lastOp' = "tick" /\ frame' = frame + 1
                /\ dino'.x = dino.x + gameSpeed)]_vars

C9_Witness == lastOp = "tick" /\ frame = 1 /\ started

\* C10: setSpeed called with a non-finite or negative value leaves the speed
\* unchanged (first variant).
C10_InvalidSpeedIgnored_First ==
    [][\A v \in FirstSpeedInputs :
        (~(IsFinite(ToNumber(v)) /\ ToNumber(v).v >= 0) /\ FirstSetSpeedOf(v))
            => fGameSpeed' = fGameSpeed]_vars

\* C11 as stated: no step other than a start or restart lowers the speed.
C11_SpeedNeverDecreases ==
    [][lastOp' \notin {"start", "restart"} => gameSpeed' >= gameSpeed]_vars

\* C11 amended: no loop callback lowers the speed, the callback whose frame is
\* a multiple of RAMP_PERIOD raises it by RAMP_INCREMENT, and an accepted
\* setSpeed stores its value, be it lower or higher than the current speed.
C11_TicksNeverLowerSpeed ==
    [][/\ TickStep => gameSpeed' >= gameSpeed
       /\ (lastOp' = "tick" /\ frame' % RAMP_PERIOD = 0)
            => gameSpeed' = gameSpeed + Centi(RAMP_INCREMENT)
       /\ \A v \in RampSpeedInputs :
            (IsFinite(ToNumber(v)) /\ ToNumber(v).v >= 0 /\ SetSpeedOf(v))
                => gameSpeed' = ToNumber(v).v]_vars

C11_Witness ==
    /\ lastOp = "tick"
    /\ frame = RAMP_PERIOD
    /\ gameSpeed = Centi(12) + Centi(RAMP_INCREMENT)

\* C12: the score never decreases between restarts; after a tick executed
\* while Running and unpaused it is max(score before, floor((runner.x - 40) *
\* 0.3)); a tick while paused or Finished leaves it unchanged.
C12_ScoreIsMaxOfDistance ==
    [][/\ lastOp' \notin {"start", "restart"} => score' >= score
       /\ lastOp' = "tick" =>
            score' = Max(score, ((dino'.x - Centi(DINO_START_X)) * 3) \div 1000)
       /\ lastOp' = "skip" => score' = score]_vars

C12_Witness ==
    /\ lastOp = "tick"
    /\ dino.x = Centi(DINO_START_X) + Centi(baseSpeed) + Centi(520)
    /\ score = 157

OnGround ==
    /\ dino.grounded
    /\ dino.vy = 0
    /\ dino.y = groundY(clientHeight) - Centi(DINO_H)

\* C13: from a grounded runner at ground level one jump request sets the
\* vertical velocity to the jump impulse and grounded to false; with ticks
\* executed while Running and unpaused the runner is eventually back at ground
\* level, grounded and with vertical velocity 0.
C13_JumpScenario ==
    /\ [][(OnGround /\ JumpKey) =>
            (dino'.vy = Centi(jumpForce) /\ ~dino'.grounded
                /\ dino'.y = dino.y)]_vars
    /\ (~dino.grounded /\ dino.vy = Centi(jumpForce)) ~> OnGround

\* the runner comes down, late in a flight
C13_Witness ==
    /\ lastOp = "tick"
    /\ ~dino.grounded
    /\ dino.vy > 0
    /\ frame > 40

\* C14: a jump request made while the runner is not grounded, in any run or
\* pause state, leaves its vertical velocity, position and grounded flag as
\* they are.
C14_NoDoubleJump ==
    [][(~dino.grounded /\ (JumpKey \/ (running /\ PointerDown))) => dino' = dino]_vars

\* the runner in flight, one tick after its jump
C14_Witness ==
    /\ lastOp = "tick"
    /\ ~dino.grounded
    /\ dino.vy = Centi(jumpForce) + gravity

\* C15: for every speed s >= baseSpeed and every random draw,
\* computeGapForSpeed(s) lies in [GAP_MIN, GAP_MAX], in script.js and in the
\* variant with high-speed easing.
C15_GapWithinBounds ==
    (probe.fn = "gap" /\ probe.done) =>
        /\ probe.a >= Centi(baseSpeed) =>
            (probe.out >= Centi(GAP_MIN) /\ probe.out <= Centi(GAP_MAX))
        /\ probe.a >= Centi(E_baseSpeed) =>
            (probe.out2 >= Centi(E_GAP_MIN) /\ probe.out2 <= Centi(E_GAP_MAX))

\* both clamps at work: the shrinking gap at its minimum, the growing gap at
\* its maximum
C15_Witness ==
    /\ probe.fn = "gap"
    /\ probe.done
    /\ probe.a = Centi(20)
    /\ probe.out = Centi(GAP_MIN)
    /\ probe.out2 = Centi(E_GAP_MAX)

\* C16: computeExtraObstacles(s) is an integer in 0 .. MAX_EXTRA_OBSTACLES for
\* every speed s >= 0, and for s1 <= s2 not above the easing threshold (any
\* s1 <= s2 in script.js, which has no easing) the count at s1 is at most the
\* count at s2.
C16_ExtraBoundedMonotone ==
    (probe.fn = "extra" /\ probe.done) =>
        /\ probe.out[1] \in 0..MAX_EXTRA_OBSTACLES
        /\ probe.out2[1] \in 0..E_MAX_EXTRA_OBSTACLES
        /\ probe.a <= probe.b => probe.out[1] <= probe.out[2]
        /\ (probe.a <= probe.b /\ probe.b <= Centi(HIGH_SPEED_THRESHOLD))
            => probe.out2[1] <= probe.out2[2]

C16_Witness ==
    /\ probe.fn = "extra"
    /\ probe.done
    /\ probe.a = Centi(7)
    /\ probe.b = Centi(20)
    /\ probe.out = <<3, MAX_EXTRA_OBSTACLES>>
    /\ probe.out2 = <<4, E_MAX_EXTRA_OBSTACLES>>

\* the open intervals (lo1, hi1) and (lo2, hi2) have a point in common
Intersect(lo1, hi1, lo2, hi2) == Max(lo1, lo2) < Min(hi1, hi2)

\* C17: collides is true exactly when the horizontal intervals and the
\* vertical intervals of the two boxes both intersect strictly (boxes that
\* only touch along an edge do not collide); runner [40,100,40,40] against
\* obstacle [50,110,20,20] collides, against the same obstacle at worldX = 100
\* it does not.
C17_CollidesIsStrictOverlap ==
    (probe.fn = "collides" /\ probe.done) =>
        LET a == probe.a
            b == probe.b
            example == a.y = Centi(100) /\ b.y = Centi(110)
                        /\ b.w = Centi(20) /\ b.h = Centi(20)
        IN  /\ probe.out <=>
                (/\ Intersect(a.x, a.x + Centi(DINO_W), b.worldX, b.worldX + b.w)
                 /\ Intersect(a.y, a.y + Centi(DINO_H), b.y, b.y + b.h))
            /\ (example /\ b.worldX = Centi(50)) => probe.out
            /\ (example /\ b.worldX = Centi(100)) => ~probe.out

\* the obstacle's left edge on the runner's right edge: no collision
C17_Witness ==
    /\ probe.fn = "collides"
    /\ probe.done
    /\ probe.a = [x |-> Centi(40), y |-> Centi(100)]
    /\ probe.b = [worldX |-> Centi(80), y |-> Centi(110), w |-> Centi(20),
                   h |-> Centi(20)]
    /\ probe.out = FALSE

\* C18: at speed baseSpeed and with every draw 0.5, two consecutive
\* generateNextObstacle calls produce obstacles whose worldX differ by
\* computeGapForSpeed(baseSpeed) plus the position jitter of that draw, which
\* is GAP_BASE + 0 + 0 = 500.
C18_DeterministicGap ==
    (probe.fn = "generate" /\ probe.done /\ probe.b = Centi(baseSpeed)
        /\ probe.r = 500) =>
            /\ probe.out = Centi(GAP_BASE)
            /\ probe.out = computeGapForSpeed(Centi(baseSpeed), 500)
                            + Centi(((500 * 80) \div 1000) - 40)

C18_Witness ==
    /\ probe.fn = "generate"
    /\ probe.done
    /\ probe.a # <<>>
    /\ probe.b = Centi(baseSpeed)
    /\ probe.r = 500
    /\ probe.out = Centi(500)
    /\ probe.out2 = Centi(500)

\* a loop callback runs the loop body in this step, on a frame without ramp
RunTick == lastOp' = "tick" /\ frame' % RAMP_PERIOD # 0

\* obstacles this step appends
Generated == Len(obstacles') - Len(obstacles)

\* obstacles ahead of the runner when the buffer is looked at: after the
\* runner has moved, before anything is generated
AheadAtFill ==
    Cardinality({i \in 1..Len(obstacles) : obstacles[i].worldX > dino'.x})

\* T = BASE_OBSTACLE_BUFFER + computeExtraObstacles(speed) + INITIAL_EXTRA_OBSTACLES
Threshold == desiredBuffer(gameSpeed)

Farthest == obstacles[Len(obstacles)].worldX

\* ten times runner.x + gap * max(1, T * 0.9), the gap drawn with r
TrickleReach(r) ==
    dino'.x * 10 + computeGapForSpeed(gameSpeed, r) * Max(10, Threshold * 9)

\* C19 as stated: a tick that finds fewer than T obstacles ahead generates
\* exactly T - aheadCount, and a tick that finds exactly T generates none by
\* deficit fill (nothing at all when the farthest obstacle is out of the
\* trickle's reach).
C19_DeficitUpToThreshold ==
    [][RunTick =>
        /\ AheadAtFill < Threshold => Generated = Threshold - AheadAtFill
        /\ (AheadAtFill = Threshold /\ Farthest * 10 >= TrickleReach(999))
            => Generated = 0]_vars

\* C19 amended: a tick that finds at most T obstacles ahead generates exactly
\* T + 1 - aheadCount (one obstacle when it finds exactly T); the deficit fill
\* generates none only from T + 1 obstacles ahead on.
C19_DeficitUpToThresholdPlusOne ==
    [][RunTick =>
        /\ AheadAtFill <= Threshold => Generated = Threshold + 1 - AheadAtFill
        /\ (AheadAtFill > Threshold /\ Farthest * 10 >= TrickleReach(999))
            => Generated = 0]_vars

\* a tick found exactly T obstacles ahead and generated one
C19_Witness ==
    /\ lastOp = "tick"
    /\ frame = 2
    /\ gameSpeed = Centi(2000)
    /\ Len(obstacles) = baseInitial + INITIAL_EXTRA_OBSTACLES + FAR_COUNT + 1
    /\ aheadCount(World) = desiredBuffer(gameSpeed) + 1

\* C20: deficit fill and trickle exclude each other within a tick.  A tick
\* with a deficit generates the deficit and nothing more; a tick without one
\* generates 1 or 2 obstacles if the farthest obstacle is nearer than
\* runner.x + gap * bufferMultiplier, and nothing otherwise.
C20_DeficitXorTrickle ==
    [][RunTick =>
        /\ AheadAtFill <= Threshold => Generated = Threshold + 1 - AheadAtFill
        /\ AheadAtFill > Threshold =>
            /\ Generated \in {0, 1, 2}
            /\ Generated > 0 => Farthest * 10 < TrickleReach(999)
            /\ Farthest * 10 < TrickleReach(0) => Generated \in {1, 2}]_vars

\* a deficit fill of 18 in one tick, a trickle of 2 in the next
C20_Witness ==
    /\ lastOp = "tick"
    /\ frame = 3
    /\ gameSpeed = 0
    /\ dino.x = Centi(DINO_START_X) + Centi(baseSpeed) + Centi(10200)
    /\ Len(obstacles) = baseInitial + INITIAL_EXTRA_OBSTACLES + FAR_COUNT + 18 + 2
    /\ aheadCount(World) = 1 + 18 + 2

\* obstacles the buffer maintenance of this step's frame appends, drawing d
Maintained(d) ==
    Len(maintainBuffer(dinoUpdate([World EXCEPT !.frame = @ + 1]), d).obstacles)
        - Len(obstacles)

\* C21: from a start or restart and with no setSpeed call, after n ticks
\* executed while Running and unpaused the speed is baseSpeed + increment *
\* floor(n / RAMP_PERIOD), n being the frame counter: it is 0 after a restart,
\* 1 after a start, a tick executed while Running and unpaused adds 1 and a
\* tick while paused or Finished leaves it and the speed alone.  A tick that
\* raises the speed appends, after the obstacles of its buffer maintenance, a
\* burst of 1 to BURST_CAP obstacles.
C21_RampSchedule ==
    /\ [](gameSpeed = Centi(baseSpeed)
                        + Centi(RAMP_INCREMENT) * (frame \div RAMP_PERIOD))
    /\ [][/\ lastOp' = "restart" => frame' = 0
          /\ lastOp' = "start" => frame' = 1
          /\ lastOp' = "tick" => (running /\ ~isPaused /\ frame' = frame + 1)
          /\ lastOp' = "skip" =>
                ((isPaused \/ ~running) /\ frame' = frame
                    /\ gameSpeed' = gameSpeed)
          /\ lastOp' = "input" => frame' = frame
          /\ (TickStep /\ gameSpeed' > gameSpeed) =>
                \E d \in DrawProfiles :
                    Generated - Maintained(d) \in 1..BURST_CAP]_vars

\* the tick of the first ramp: speed 5, and the burst of two obstacles on top
\* of the initial ones
C21_Witness ==
    /\ lastOp = "tick"
    /\ frame = RAMP_PERIOD
    /\ gameSpeed = Centi(baseSpeed) + Centi(RAMP_INCREMENT)
    /\ Len(obstacles) = baseInitial + INITIAL_EXTRA_OBSTACLES + FAR_COUNT + 2

\* C22: in every reachable state, under any sequence of start, restart,
\* ticks, setSpeed and addObstacleAt calls, the obstacle sequence is in
\* strictly ascending order of worldX.
C22_AscendingWorldX ==
    \A i \in 1..(Len(obstacles) - 1) : obstacles[i].worldX < obstacles[i + 1].worldX

\* C23: every obstacle appended by generateNextObstacle or
\* populateInitialObstacles has worldX strictly greater than the position it
\* was placed from (the last obstacle's worldX, or the start cursor on the
\* empty sequence), for every speed and every draw, in script.js and in the
\* variant with easing.
C23_PlacedStrictlyAhead ==
    (probe.fn = "place" /\ probe.done) =>
        /\ Len(probe.out.generate) = 2
        /\ Len(probe.out.populate) = baseInitial + INITIAL_EXTRA_OBSTACLES + FAR_COUNT
        /\ \A i \in DOMAIN probe.out.generate : probe.out.generate[i] > 0
        /\ \A i \in DOMAIN probe.out.populate : probe.out.populate[i] > 0
        /\ \A i \in DOMAIN probe.out2.generate : probe.out2.generate[i] > 0
        /\ \A i \in DOMAIN probe.out2.populate : probe.out2.populate[i] > 0

\* the smallest step: the gap at its clamp GAP_MIN and the jitter at -40
C23_Witness ==
    /\ probe.fn = "place"
    /\ probe.done
    /\ probe.a = Centi(20)
    /\ probe.out.generate = <<Centi(GAP_MIN - 40), Centi(GAP_MIN - 40)>>
    /\ probe.out.populate[1] = Centi(GAP_MIN - 20)
    /\ probe.out2.generate[1] = Centi(E_GAP_MAX - 40)

\* C24: after every physics update and after every layout recalculation of a
\* viewport resize, runner.y + runner.h <= ground level; a tick executed while
\* Running and unpaused moves runner.x forward by the speed, which is never
\* negative, so runner.x does not decrease.
C24_RunnerInvariant ==
    /\ [](dino.y + Centi(DINO_H) <= groundY(clientHeight))
    /\ [][/\ TickStep => dino'.x >= dino.x
          /\ lastOp' = "tick" => (gameSpeed >= 0 /\ dino'.x = dino.x + gameSpeed)
          /\ clientHeight' # clientHeight =>
                dino'.y = Min(dino.y, groundY(clientHeight') - Centi(DINO_H))]_vars

\* a tick after the viewport shrank: the resize put the runner on the new
\* ground level, the tick keeps it there
C24_Witness ==
    /\ lastOp = "tick"
    /\ clientHeight = Centi(200)
    /\ gameSpeed = Centi(2000)
    /\ dino.y + Centi(DINO_H) = groundY(clientHeight)
    /\ dino.grounded

\* C25: no tick, jump, pause, invincibility toggle, setSpeed or spawn call
\* changes the worldX, width or height (or the y) of an obstacle already in the
\* sequence; a viewport resize changes only each obstacle's y, to the ground
\* level of the new viewport minus the obstacle's height.
C25_ObstaclesImmutable ==
    [][lastOp' \notin {"start", "restart"} =>
        /\ Len(obstacles') >= Len(obstacles)
        /\ \A i \in 1..Len(obstacles) :
            /\ obstacles'[i].worldX = obstacles[i].worldX
            /\ obstacles'[i].w = obstacles[i].w
            /\ obstacles'[i].h = obstacles[i].h
            /\ obstacles'[i].y =
                    IF clientHeight' # clientHeight
                    THEN groundY(clientHeight') - obstacles[i].h
                    ELSE obstacles[i].y]_vars

\* the viewport has shrunk after a spawn call and a tick that generated: the
\* first obstacle and the spawned one stand on the new ground level
C25_Witness ==
    /\ clientHeight = Centi(200)
    /\ added = 1
    /\ Len(obstacles) > baseInitial + INITIAL_EXTRA_OBSTACLES + FAR_COUNT + 1
    /\ obstacles[1].y = groundY(Centi(200)) - obstacles[1].h
    /\ \E i \in 1..Len(obstacles) :
            /\ obstacles[i].worldX = Centi(50)
            /\ obstacles[i].y = groundY(Centi(200)) - obstacles[i].h

\* C26: at most one loop callback is pending at any time, whatever the
\* sequence of start requests, restart requests and callbacks: none before
\* the first start, exactly one from then on.  A start request after the
\* first changes nothing: it schedules no loop and does not reset the world.
C26_OneTickChain ==
    /\ [](rafPending <= 1)
    /\ [](rafPending = IF started THEN 1 ELSE 0)
    /\ [][/\ rafPending' = rafPending \/ (~started /\ lastOp' = "start")
          /\ started => (started' /\ lastOp' # "start")]_vars

\* callbacks after the start, the last of them while paused: one callback
\* is pending
C26_Witness ==
    /\ started
    /\ rafPending = 1
    /\ lastOp = "skip"
    /\ frame = MaxFrame
    /\ isPaused

\* the sequence populateInitialObstacles leaves at baseSpeed: initialCount
\* regular obstacles a gap -20 .. +19 apart, then FAR_COUNT far ones a gap
\* +200 .. +499 apart, the first placed from the runner's start cursor
InitialSequence ==
    LET n == baseInitial + INITIAL_EXTRA_OBSTACLES
        step(i) == obstacles[i].worldX
                    - (IF i = 1 THEN Centi(DINO_START_X) + Centi(START_OFFSET)
                                ELSE obstacles[i - 1].worldX)
        lo == computeGapForSpeed(Centi(baseSpeed), 0)
        hi == computeGapForSpeed(Centi(baseSpeed), 999)
    IN  /\ Len(obstacles) = n + FAR_COUNT
        /\ \A i \in 1..n : step(i) >= lo - Centi(20) /\ step(i) <= hi + Centi(19)
        /\ \A i \in (n + 1)..(n + FAR_COUNT) :
                step(i) >= lo + Centi(200) /\ step(i) <= hi + Centi(499)
        /\ \A i \in 1..Len(obstacles) : obstacles[i].worldX > Centi(DINO_START_X)

\* C27: populateInitialObstacles replaces the sequence with baseInitial +
\* INITIAL_EXTRA_OBSTACLES regular obstacles followed by FAR_COUNT far ones, all
\* ahead of the runner's start position.  On the first tick after a start or
\* restart, the speed still baseSpeed, the obstacles ahead of the runner are
\* more than the buffer threshold and the tick generates nothing.
C27_InitialPopulation ==
    /\ [](lastOp \in {"start", "restart"} =>
            /\ InitialSequence
            /\ aheadCount(World) = Len(obstacles)
            /\ aheadCount(World) > desiredBuffer(gameSpeed))
    /\ [][(frame = 0 /\ lastOp' = "tick" /\ gameSpeed = Centi(baseSpeed)) =>
            /\ AheadAtFill > 0
            /\ AheadAtFill >= Threshold + 1
            /\ Generated = 0]_vars

\* the first tick after a restart of a started game
C27_Witness ==
    /\ lastOp = "tick"
    /\ started
    /\ frame = 1
    /\ gameSpeed = Centi(baseSpeed)
    /\ dino.x = Centi(DINO_START_X) + Centi(baseSpeed)
    /\ InitialSequence
    /\ aheadCount(World) = baseInitial + INITIAL_EXTRA_OBSTACLES + FAR_COUNT

\* C28: in the variant with easing, for every speed s >= HIGH_SPEED_THRESHOLD
\* + HIGH_SPEED_REDUCTION_RATE, computeExtraObstacles(s) is strictly less than
\* the undamped value min(MAX_EXTRA_OBSTACLES, floor((s - baseSpeed) /
\* SPEED_LEVEL)).
C28_EasingReducesExtra ==
    (/\ probe.fn = "extra"
     /\ probe.done
     /\ probe.a >= Centi(HIGH_SPEED_THRESHOLD) + Centi(HIGH_SPEED_REDUCTION_RATE))
        => probe.out2[1] < Min(E_MAX_EXTRA_OBSTACLES,
                               Floor(probe.a - Centi(E_baseSpeed),
                                     Centi(E_SPEED_LEVEL)))

\* C29: no step other than a restart removes an obstacle.  Across ticks and
\* input requests the sequence keeps its length or grows, every obstacle the
\* runner has passed stays where it was in the sequence, and a tick that
\* finds no more than the buffer threshold ahead makes the sequence longer.
C29_NeverRemoved ==
    [][lastOp' \notin {"start", "restart"} =>
        /\ Len(obstacles') >= Len(obstacles)
        /\ \A i \in 1..Len(obstacles) :
                obstacles[i].worldX <= dino'.x =>
                    obstacles'[i].worldX = obstacles[i].worldX
        /\ (lastOp' = "tick" /\ AheadAtFill <= Threshold) =>
                Len(obstacles') > Len(obstacles)]_vars

\* after a tick at speed 20 the runner has passed obstacles, they are still
\* in the sequence, and the sequence has grown
C29_Witness ==
    /\ lastOp = "tick"
    /\ gameSpeed = Centi(2000)
    /\ added = 0
    /\ obstacles[1].worldX < dino.x
    /\ aheadCount(World) < Len(obstacles)
    /\ Len(obstacles) > baseInitial + INITIAL_EXTRA_OBSTACLES + FAR_COUNT

====
